---- MODULE Spec2Model ----
(***************************************************************************)
(* escpos/network.py: the retry decorator backoff(settings) and the        *)
(* NetworkConnection whose public methods catch, release, write and read   *)
(* are wrapped by it.                                                      *)
(*                                                                         *)
(* One NetworkConnection instance is modelled.  The operating system and   *)
(* the peer are the environment: every socket primitive (shutdown, close,  *)
(* connect, select, send, recv) draws its outcome with \E.  A call of a    *)
(* public method is a sequence of steps, one per socket primitive group,   *)
(* with pc holding the position inside backoff.outter.inner and inside the *)
(* raw method it invokes.                                                  *)
(***************************************************************************)
EXTENDS Integers, Sequences, FiniteSets, TLC

\* ------------------------------------------------------------------ bounds
\* largest settings.max_tries tried for the decorator
MaxTries == 3
\* longest payload handed to write()
MaxLen == 2
\* sockets abandoned without close are counted up to this many
MaxOrphans == 1

\* -------------------------------------------------------- program constants
\* RetrySettings.max_tries, .delay, .backoff
DefaultMaxTries == 3
DefaultDelay == 3
DefaultBackoff == 2
\* for tries in range(2) of _assert_writable / _assert_readable
PollRounds == 2

\* RetrySettings.exceptions
RetryExceptions == {"NonReadableSocketError", "NonWritableSocketError", "socket.error"}

\* the exception kinds the code and the socket layer raise here
Kinds == RetryExceptions \cup {"RuntimeError", "ValueError"}

\* the settings objects backoff() is applied to: the RetrySettings class with
\* its attributes as written or reassigned
SettingsSet ==
  [max_tries : 0..MaxTries, delay : {0, 1, DefaultDelay}, backoff : {1, DefaultBackoff}]

RetrySettings ==
  [max_tries |-> DefaultMaxTries, delay |-> DefaultDelay, backoff |-> DefaultBackoff]

\* payloads of write(): the bytes 1..n
Payloads == {[i \in 1..n |-> i] : n \in 0..MaxLen}

\* what recv can deliver: nothing (peer closed) or one chunk
Chunks == {<<>>, <<7>>}

\* return values: None, or a byte string
NoneVal == [isNone |-> TRUE, bytes |-> <<>>]
Bytes(b) == [isNone |-> FALSE, bytes |-> b]

VARIABLES
  settings,   \* the settings object given to backoff()
  decorated,  \* backoff(settings) passed its checks and wrapped the methods
  socket,     \* self.socket: "None", or the state of the socket object it holds
  orphans,    \* sockets created by the instance, dropped from self.socket, never closed
  pc,         \* position of the caller inside inner and the raw method
  op,         \* public method being executed
  data,       \* argument of write
  mtries,     \* inner: mtries
  mdelay,     \* inner: mdelay
  tries,      \* _assert_*: loop variable
  totalsent,  \* _raw_write: totalsent
  wire,       \* chunks the transport accepted during the current invocation, in order
  outcomes,   \* per invocation of f in the current call: exception kind or "none", value
  sleeps,     \* arguments of time.sleep in the current call
  result,     \* how the last call ended
  pre,        \* self.socket when the current call started
  prev,       \* the call before the current one
  acted,      \* a socket primitive ran during the current call
  entry,      \* self.socket when the current invocation of f started
  polls,      \* results of select.select in the current invocation, in order
  nrecon,     \* calls of _reconnect in the current invocation
  ncatch,     \* calls of _raw_catch in the current invocation
  raised,     \* the last exception raised inside the current invocation
  broken,     \* the peer has closed the connection of the socket self.socket holds
  fault       \* during the current call a primitive failed on a socket the peer had not closed

vars == <<settings, decorated, socket, orphans, pc, op, data, mtries, mdelay, tries,
          totalsent, wire, outcomes, sleeps, result, pre, prev, acted,
          entry, polls, nrecon, ncatch, raised, broken, fault>>

\* the history of the current invocation
hist == <<entry, polls, nrecon, ncatch, raised>>

Min(a, b) == IF a < b THEN a ELSE b

\* ------------------------------------------------------------ backoff()
\* the last check accepting a multiplier of 1
backoffLoose(s) == s.max_tries > 0 /\ s.delay > 0 /\ s.backoff >= 1

\* the three checks of backoff(settings); FALSE is the ValueError
backoff(s) == s.max_tries > 0 /\ s.delay > 0 /\ s.backoff > 1

\* a bare except: every kind is retried
caughtAny(kind) == TRUE

\* except settings.exceptions
caught(kind) == kind \in RetryExceptions

\* an attempt counted twice
consumeTwo(mt) == mt - 2

\* mtries -= 1
consume(mt) == mt - 1

\* one attempt too many: < instead of <=
exhaustedLate(mt) == mt < 0

\* if mtries <= 0: raise
exhausted(mt) == mt <= 0

\* the delay grown by addition
nextDelayAdd(md) == md + settings.backoff

\* mdelay *= settings.backoff
nextDelay(md) == md * settings.backoff

\* --------------------------------------------------- raw socket methods
\* no exception, and an exception of the socket layer
NoExc == [kind |-> "none", details |-> {}]
OSExc(e) == [kind |-> e, details |-> {}]

\* _raise_with_details: the exception and what its message is formatted from
raise_with_details(exctype) ==
  [kind |-> exctype,
   details |-> {"socket", "host_name", "port_number", "address_family", "socket_type"}]

\* one exception type for both checks
readinessErrorRuntime(o) == "RuntimeError"

\* exctype of the for-else of _assert_readable / _assert_writable
readinessError(o) ==
  IF o = "read" THEN "NonReadableSocketError" ELSE "NonWritableSocketError"

\* the check for a missing socket left out
needsConnectNever(sock) == FALSE

\* if self.socket is None (entry of _assert_writable / _assert_readable)
needsConnect(sock) == sock = "None"

\* _raw_release with the outcome r of its socket calls:
\* "ok", "shutdown_fails", "close_fails"
raw_release(sock, r) ==
  IF sock = "None" THEN [socket |-> "None", exc |-> "none"]
  ELSE IF sock = "closed" \/ r = "shutdown_fails"
         THEN [socket |-> sock, exc |-> "socket.error"]
  ELSE IF r = "close_fails" THEN [socket |-> "closed", exc |-> "socket.error"]
  ELSE [socket |-> "None", exc |-> "none"]

\* _raw_catch with the outcome c of connect ("ok", "fails"); gc tells whether
\* the runtime finalised (closed) the socket object that self.socket held
raw_catch(sock, orph, c, gc) ==
  [socket  |-> IF c = "ok" THEN "connected" ELSE "new",
   orphans |-> IF sock \in {"new", "connected"} /\ ~gc
                 THEN Min(orph + 1, MaxOrphans) ELSE orph,
   exc     |-> IF c = "ok" THEN "none" ELSE "socket.error"]

\* the release without the connect
reconnectReleaseOnly(sock, orph, r, c, gc) ==
  [socket |-> raw_release(sock, r).socket, orphans |-> orph,
   exc |-> raw_release(sock, r).exc]

\* _reconnect
reconnect(sock, orph, r, c, gc) ==
  LET rel == raw_release(sock, r) IN
    IF rel.exc # "none"
      THEN [socket |-> rel.socket, orphans |-> orph, exc |-> rel.exc]
      ELSE raw_catch(rel.socket, orph, c, gc)

\* the whole payload sent again
remainingAll(d, ts) == d

\* data[totalsent:]
remaining(d, ts) == SubSeq(d, ts + 1, Len(d))

\* totalsent += sent
advance(ts, sent) == ts + sent

\* while totalsent < len(data)
moreToSend(ts, d) == ts < Len(d)

ReleaseOutcomes == {"ok", "shutdown_fails", "close_fails"}
ConnectOutcomes == {"ok", "fails"}

Init ==
  /\ settings \in SettingsSet
  /\ decorated = FALSE
  /\ socket = "None"
  /\ orphans = 0
  /\ pc = "load"
  /\ op = "none"
  /\ data = <<>>
  /\ mtries = 0
  /\ mdelay = 0
  /\ tries = 0
  /\ totalsent = 0
  /\ wire = <<>>
  /\ outcomes = <<>>
  /\ sleeps = <<>>
  /\ result = [tag |-> "none", kind |-> "none", val |-> NoneVal]
  /\ pre = "None"
  /\ prev = [op |-> "none", raised |-> FALSE]
  /\ acted = FALSE
  /\ entry = "None"
  /\ polls = <<>>
  /\ nrecon = 0
  /\ ncatch = 0
  /\ raised = NoExc
  /\ broken = FALSE
  /\ fault = FALSE

\* the class body runs @backoff(RetrySettings): the checks pass and the methods
\* are wrapped, or ValueError ends the import
decorate ==
  /\ pc = "load"
  /\ decorated' = backoff(settings)
  /\ pc' = IF backoff(settings) THEN "idle" ELSE "ValueError"
  /\ UNCHANGED <<settings, socket, orphans, op, data, mtries, mdelay, tries, totalsent,
                 wire, outcomes, sleeps, result, pre, prev, acted, hist, broken, fault>>

\* the same socket object, still connected, keeps its peer state
StillBroken(sock) == sock = "connected" /\ broken

\* ---------------------------------------------------------------- inner
\* a public method is called: inner starts (mtries, mdelay = ...)
Begin(o, d) ==
  /\ decorated
  /\ op' = o
  /\ data' = d
  /\ mtries' = settings.max_tries
  /\ mdelay' = settings.delay
  /\ pc' = "try"
  /\ outcomes' = <<>>
  /\ sleeps' = <<>>
  /\ pre' = socket
  /\ prev' = [op |-> op, raised |-> result.tag = "raise"]
  /\ acted' = FALSE
  /\ tries' = 0
  /\ totalsent' = 0
  /\ wire' = <<>>
  /\ result' = [tag |-> "none", kind |-> "none", val |-> NoneVal]
  /\ entry' = socket
  /\ polls' = <<>>
  /\ nrecon' = 0
  /\ ncatch' = 0
  /\ raised' = NoExc
  /\ fault' = FALSE
  /\ UNCHANGED <<settings, decorated, socket, orphans, broken>>

\* NetworkConnection.catch()
catch ==
  /\ pc \in {"idle", "done"}
  /\ Begin("catch", <<>>)

\* NetworkConnection.release()
release ==
  /\ pc \in {"idle", "done"}
  /\ Begin("release", <<>>)

\* NetworkConnection.write(data)
write ==
  /\ pc \in {"idle", "done"}
  /\ \E d \in Payloads : Begin("write", d)

\* NetworkConnection.read()
read ==
  /\ pc \in {"idle", "done"}
  /\ Begin("read", <<>>)

\* f(*args, **kwargs) ended: with exception kind e, or e = "none" and value v
Finish(e, v) ==
  /\ outcomes' = Append(outcomes, [kind |-> e, val |-> v])
  /\ pc' = "ret"

\* retval = f(...) for f = _raw_catch
try_catch ==
  /\ pc = "try" /\ op = "catch"
  /\ \E c \in ConnectOutcomes, gc \in BOOLEAN :
       LET n == raw_catch(socket, orphans, c, gc) IN
         /\ socket' = n.socket
         /\ orphans' = n.orphans
         /\ Finish(n.exc, NoneVal)
         /\ raised' = IF n.exc = "none" THEN NoExc ELSE OSExc(n.exc)
         /\ fault' = (fault \/ n.exc # "none")
  /\ acted' = TRUE
  /\ entry' = socket
  /\ polls' = <<>>
  /\ nrecon' = 0
  /\ ncatch' = 1
  /\ broken' = FALSE
  /\ UNCHANGED <<settings, decorated, op, data, mtries, mdelay, tries, totalsent, wire,
                 sleeps, result, pre, prev>>

\* retval = f(...) for f = _raw_release
try_release ==
  /\ pc = "try" /\ op = "release"
  /\ \E r \in ReleaseOutcomes :
       LET n == raw_release(socket, r) IN
         /\ socket' = n.socket
         /\ Finish(n.exc, NoneVal)
         /\ raised' = IF n.exc = "none" THEN NoExc ELSE OSExc(n.exc)
         /\ fault' = (fault \/ (n.exc # "none" /\ ~broken))
         /\ broken' = StillBroken(n.socket)
  /\ acted' = (acted \/ socket # "None")
  /\ entry' = socket
  /\ polls' = <<>>
  /\ nrecon' = 0
  /\ ncatch' = 0
  /\ UNCHANGED <<settings, decorated, orphans, op, data, mtries, mdelay, tries, totalsent,
                 wire, sleeps, result, pre, prev>>

\* _raw_read without its try/except
RaiseThrough(e) == Finish(e, NoneVal)

\* an exception of kind e leaves _raw_write (propagates) or _raw_read (swallowed)
Raise(e) ==
  IF op = "read" THEN Finish("none", Bytes(<<>>)) ELSE Finish(e, NoneVal)

\* f = _raw_write / _raw_read: entry of _assert_writable / _assert_readable
assert_entry ==
  /\ pc = "try" /\ op \in {"write", "read"}
  /\ tries' = 0
  /\ totalsent' = 0
  /\ wire' = <<>>
  /\ entry' = socket
  /\ polls' = <<>>
  /\ IF needsConnect(socket)
       THEN \E c \in ConnectOutcomes, gc \in BOOLEAN :
              LET n == reconnect(socket, orphans, "ok", c, gc) IN
                /\ socket' = n.socket
                /\ orphans' = n.orphans
                /\ acted' = TRUE
                /\ nrecon' = 1
                /\ ncatch' = 1
                /\ broken' = FALSE
                /\ fault' = (fault \/ n.exc # "none")
                /\ raised' = IF n.exc = "none" THEN NoExc ELSE OSExc(n.exc)
                /\ IF n.exc # "none"
                     THEN Raise(n.exc)
                     ELSE pc' = "select" /\ UNCHANGED outcomes
       ELSE /\ pc' = "select"
            /\ nrecon' = 0
            /\ ncatch' = 0
            /\ raised' = NoExc
            /\ UNCHANGED <<socket, orphans, acted, outcomes, broken, fault>>
  /\ UNCHANGED <<settings, decorated, op, data, mtries, mdelay, sleeps, result, pre, prev>>

\* select.select(...) of the loop; a closed socket object has no descriptor
select ==
  /\ pc = "select"
  /\ acted' = TRUE
  /\ IF socket = "closed"
       THEN /\ \E e \in {"socket.error", "ValueError"} :
                 Raise(e) /\ raised' = OSExc(e)
            /\ fault' = TRUE
            /\ UNCHANGED <<tries, totalsent, polls>>
       ELSE \E ready \in BOOLEAN :
              /\ polls' = Append(polls, ready)
              /\ fault' = (fault \/ (~ready /\ ~broken))
              /\ UNCHANGED raised
              /\ IF ready
                THEN /\ UNCHANGED tries
                     /\ IF op = "read"
                          THEN pc' = "recv" /\ UNCHANGED outcomes
                          ELSE IF moreToSend(0, data)
                                 THEN pc' = "send" /\ UNCHANGED outcomes
                                 ELSE Finish("none", NoneVal)
                     /\ UNCHANGED totalsent
                ELSE /\ pc' = "reconnect"
                     /\ UNCHANGED <<tries, totalsent, outcomes>>
  /\ UNCHANGED <<settings, decorated, socket, orphans, op, data, mtries, mdelay, wire,
                 sleeps, result, pre, prev, entry, nrecon, ncatch, broken>>

\* else: self._reconnect() of the loop, then the next round or the for's else
loop_reconnect ==
  /\ pc = "reconnect"
  /\ \E r \in ReleaseOutcomes, c \in ConnectOutcomes, gc \in BOOLEAN :
       LET n == reconnect(socket, orphans, r, c, gc) IN
         /\ socket' = n.socket
         /\ orphans' = n.orphans
         /\ nrecon' = nrecon + 1
         /\ ncatch' = IF raw_release(socket, r).exc = "none" THEN ncatch + 1 ELSE ncatch
         /\ broken' = (raw_release(socket, r).exc # "none" /\ StillBroken(n.socket))
         /\ fault' = (fault \/ (n.exc # "none" /\ ~StillBroken(n.socket)))
         /\ IF n.exc # "none"
              THEN Raise(n.exc) /\ raised' = OSExc(n.exc) /\ UNCHANGED tries
              ELSE /\ tries' = tries + 1
                   /\ IF tries + 1 < PollRounds
                        THEN pc' = "select" /\ UNCHANGED <<outcomes, raised>>
                        ELSE /\ Raise(readinessError(op))
                             /\ raised' = raise_with_details(readinessError(op))
  /\ acted' = TRUE
  /\ UNCHANGED <<settings, decorated, op, data, mtries, mdelay, totalsent, wire, sleeps,
                 result, pre, prev, entry, polls>>

\* sent = self.socket.send(data[totalsent:]) and the rest of the loop body
send ==
  /\ pc = "send"
  /\ acted' = TRUE
  /\ \/ /\ Finish("socket.error", NoneVal)
        /\ raised' = OSExc("socket.error")
        /\ fault' = (fault \/ ~broken)
        /\ UNCHANGED <<totalsent, wire>>
     \/ /\ socket # "closed"
        /\ \E sent \in 0..Len(remaining(data, totalsent)) :
             IF sent = 0
               THEN /\ Finish("RuntimeError", NoneVal)
                    /\ raised' = raise_with_details("RuntimeError")
                    /\ fault' = (fault \/ ~broken)
                    /\ UNCHANGED <<totalsent, wire>>
               ELSE /\ UNCHANGED <<raised, fault>>
                    /\ wire' = Append(wire, SubSeq(remaining(data, totalsent), 1, sent))
                    /\ totalsent' = advance(totalsent, sent)
                    /\ IF moreToSend(advance(totalsent, sent), data)
                         THEN pc' = "send" /\ UNCHANGED outcomes
                         ELSE Finish("none", NoneVal)
  /\ UNCHANGED <<settings, decorated, socket, orphans, op, data, mtries, mdelay, tries,
                 sleeps, result, pre, prev, entry, polls, nrecon, ncatch, broken>>

\* return self.socket.recv(self.read_buffer_size), inside try/except
recv ==
  /\ pc = "recv"
  /\ acted' = TRUE
  /\ \/ /\ Raise("socket.error")
        /\ raised' = OSExc("socket.error")
        /\ fault' = (fault \/ ~broken)
     \/ /\ socket # "closed"
        /\ \E b \in Chunks : Finish("none", Bytes(b))
        /\ UNCHANGED <<raised, fault>>
  /\ UNCHANGED <<settings, decorated, socket, orphans, op, data, mtries, mdelay, tries,
                 totalsent, wire, sleeps, result, pre, prev, entry, polls, nrecon, ncatch,
                 broken>>

Last == outcomes[Len(outcomes)]

\* except settings.exceptions: consume an attempt, raise or go to sleep
inner_except ==
  /\ pc = "ret"
  /\ Last.kind # "none" /\ caught(Last.kind)
  /\ mtries' = consume(mtries)
  /\ IF exhausted(consume(mtries))
       THEN /\ pc' = "done"
            /\ result' = [tag |-> "raise", kind |-> Last.kind, val |-> NoneVal]
       ELSE /\ pc' = "sleep"
            /\ UNCHANGED result
  /\ UNCHANGED <<settings, decorated, socket, orphans, op, data, mdelay, tries, totalsent,
                 wire, outcomes, sleeps, pre, prev, acted, hist, broken, fault>>

\* an exception no except clause matches leaves inner
inner_propagate ==
  /\ pc = "ret"
  /\ Last.kind # "none" /\ ~caught(Last.kind)
  /\ pc' = "done"
  /\ result' = [tag |-> "raise", kind |-> Last.kind, val |-> NoneVal]
  /\ UNCHANGED <<settings, decorated, socket, orphans, op, data, mtries, mdelay, tries,
                 totalsent, wire, outcomes, sleeps, pre, prev, acted, hist, broken, fault>>

\* else: return retval
inner_else ==
  /\ pc = "ret"
  /\ Last.kind = "none"
  /\ pc' = "done"
  /\ result' = [tag |-> "return", kind |-> "none", val |-> Last.val]
  /\ UNCHANGED <<settings, decorated, socket, orphans, op, data, mtries, mdelay, tries,
                 totalsent, wire, outcomes, sleeps, pre, prev, acted, hist, broken, fault>>

\* time.sleep(mdelay); mdelay *= settings.backoff; next round of the while
sleep ==
  /\ pc = "sleep"
  /\ sleeps' = Append(sleeps, mdelay)
  /\ mdelay' = nextDelay(mdelay)
  /\ pc' = "try"
  /\ UNCHANGED <<settings, decorated, socket, orphans, op, data, mtries, tries, totalsent,
                 wire, outcomes, result, pre, prev, acted, hist, broken, fault>>

\* __del__: self._raw_release(), with nothing around it; raised holds the
\* exception that leaves the method
del ==
  /\ pc \in {"idle", "done"}
  /\ \E r \in ReleaseOutcomes :
       LET n == raw_release(socket, r) IN
         /\ socket' = n.socket
         /\ broken' = StillBroken(n.socket)
         /\ raised' = IF n.exc = "none" THEN NoExc ELSE OSExc(n.exc)
  /\ op' = "__del__"
  /\ pre' = socket
  /\ entry' = socket
  /\ acted' = (socket # "None")
  /\ pc' = "destroyed"
  /\ outcomes' = <<>>
  /\ sleeps' = <<>>
  /\ result' = [tag |-> "none", kind |-> "none", val |-> NoneVal]
  /\ prev' = [op |-> op, raised |-> result.tag = "raise"]
  /\ polls' = <<>>
  /\ nrecon' = 0
  /\ ncatch' = 0
  /\ fault' = FALSE
  /\ UNCHANGED <<settings, decorated, orphans, data, mtries, mdelay, tries, totalsent, wire>>

\* the peer closes the connection the instance holds; between calls here, the
\* peer closing during a call shows in the outcomes the primitives draw
peer_close ==
  /\ pc \in {"idle", "done"}
  /\ socket = "connected" /\ ~broken
  /\ broken' = TRUE
  /\ UNCHANGED <<settings, decorated, socket, orphans, pc, op, data, mtries, mdelay, tries,
                 totalsent, wire, outcomes, sleeps, result, pre, prev, acted, hist, fault>>

\* the steps of the calling thread inside a call of a public method
CallStep ==
  \/ try_catch \/ try_release
  \/ assert_entry \/ select \/ loop_reconnect \/ send \/ recv
  \/ inner_except \/ inner_propagate \/ inner_else \/ sleep

Next ==
  \/ decorate
  \/ catch \/ release \/ write \/ read
  \/ try_catch \/ try_release
  \/ assert_entry \/ select \/ loop_reconnect \/ send \/ recv
  \/ inner_except \/ inner_propagate \/ inner_else \/ sleep
  \/ del \/ peer_close

Spec == Init /\ [][Next]_vars

\* the calling thread is blocking and single: inside a call it takes its next step
FairSpec == Spec /\ WF_vars(CallStep)

\* ================================================================ properties
Done == pc = "done"
N == settings.max_tries
Retryable(i) == outcomes[i].kind \in RetryExceptions
Succeeded(i) == outcomes[i].kind = "none"
AllRetryable == \A i \in 1..Len(outcomes) : Retryable(i)

RECURSIVE Flatten(_)
Flatten(ss) == IF ss = <<>> THEN <<>> ELSE Head(ss) \o Flatten(Tail(ss))

RECURSIVE Power(_, _)
Power(b, e) == IF e = 0 THEN 1 ELSE b * Power(b, e - 1)

\* C1: with max_tries = N and every invocation of the call failing with a kind of
\* settings.exceptions, the call never returns, never makes more than N
\* invocations, and ends after exactly N of them by raising the kind of the last.
RetryBound ==
  AllRetryable =>
    /\ Len(outcomes) <= N
    /\ result.tag # "return"
    /\ Done => /\ Len(outcomes) = N
               /\ result.tag = "raise"
               /\ result.kind = Last.kind

RetryBoundWitness ==
  /\ Done /\ N = 3 /\ Len(outcomes) = 3 /\ AllRetryable
  /\ result.tag = "raise" /\ result.kind = "socket.error"

\* C2 as stated: a call that ends with a failure outside settings.exceptions has
\* invoked the operation exactly once, has not slept and has not decremented mtries.
NonRetryableInvokedOnce ==
  (Done /\ result.tag = "raise" /\ result.kind \notin RetryExceptions) =>
    /\ Len(outcomes) = 1
    /\ sleeps = <<>>
    /\ mtries = N

\* C2 amended: an invocation failing with a kind outside settings.exceptions is the
\* last of its call (the only one when it is the first), no sleep follows it, mtries
\* is not decremented for it, and the call raises that kind.
NonRetryablePropagates ==
  \A i \in 1..Len(outcomes) :
    (~Succeeded(i) /\ ~Retryable(i)) =>
      /\ i = Len(outcomes)
      /\ pc \in {"ret", "done"}
      /\ Len(sleeps) = i - 1
      /\ mtries = N - (i - 1)
      /\ Done => (result.tag = "raise" /\ result.kind = outcomes[i].kind)

NonRetryableWitness ==
  /\ Done /\ op = "write" /\ Len(outcomes) = 1 /\ N = 3
  /\ result.tag = "raise" /\ result.kind = "RuntimeError"
  /\ sleeps = <<>> /\ mtries = 3

\* C3: under the default policy a write() whose first invocation of _raw_write ended
\* on a zero-byte send (the connection-broken failure) invokes _raw_write again.
ZeroSendRetried ==
  (Done /\ op = "write" /\ settings = RetrySettings
        /\ outcomes[1].kind = "RuntimeError") =>
    Len(outcomes) > 1

\* C4: self.socket is not None only while it holds a socket whose connect succeeded
\* and that has not been closed.
HandleOnlyWhenConnected == socket \in {"None", "connected"}

\* C5: when release() has ended, returning or raising, on an instance that held a
\* socket, self.socket is None.
ReleaseClearsHandle ==
  (Done /\ op = "release" /\ pre # "None") => socket = "None"

\* C6: of two release() calls in a row neither raises and self.socket is None after
\* each; release() with self.socket None runs no socket primitive.
IdempotentClose ==
  /\ (Done /\ op = "release" /\ prev.op = "release") =>
       /\ ~prev.raised /\ pre = "None"
       /\ result.tag = "return" /\ socket = "None"
  /\ (op = "release" /\ pre = "None") => ~acted

\* C7: every socket the instance created and that self.socket no longer holds has
\* been closed.
SingleSocket == orphans = 0

\* C8: write() returns only after one invocation of _raw_write had the transport
\* accept the whole payload: the chunks accepted, in order, are the payload, each
\* send having been given the bytes not yet sent.
WriteCompleteness ==
  /\ (op = "write" /\ pc \in {"select", "reconnect", "send"}) =>
       /\ Flatten(wire) = SubSeq(data, 1, totalsent)
       /\ totalsent = Len(Flatten(wire))
  /\ (op = "write" /\ Done /\ result.tag = "return") =>
       /\ Flatten(wire) = data
       /\ totalsent = Len(data)
       /\ \A i \in 1..Len(wire) : Len(wire[i]) > 0

WriteCompletenessWitness ==
  /\ op = "write" /\ Done /\ result.tag = "return"
  /\ Len(data) = 2 /\ Len(wire) = 2 /\ Len(outcomes) = 2

\* C9: the k-th sleep of a call lasts delay * backoff^(k-1); a sleep happens only
\* between two invocations, so a call of m invocations has slept m-1 times; the
\* default policy sleeps 3 then 6.
BackoffDelays ==
  /\ \A k \in 1..Len(sleeps) : sleeps[k] = settings.delay * Power(settings.backoff, k - 1)
  /\ pc \in {"ret", "sleep", "done"} => Len(sleeps) = Len(outcomes) - 1
  /\ pc \in {"try", "select", "reconnect", "send", "recv"} => Len(sleeps) = Len(outcomes)
  /\ (settings = RetrySettings /\ Done /\ Len(outcomes) = 3) => sleeps = <<3, 6>>

BackoffDelaysWitness ==
  /\ settings = RetrySettings /\ Done /\ Len(outcomes) = 3 /\ sleeps = <<3, 6>>

\* C10: a success is the last invocation of its call and the call returns its value;
\* the invocations before it failed with kinds of settings.exceptions; no call makes
\* more than N invocations, and a finished call made N of them unless its last
\* invocation succeeded or failed with a kind outside settings.exceptions.
RetryUntilSuccess ==
  /\ Len(outcomes) <= N
  /\ \A k \in 1..Len(outcomes) :
       /\ k < Len(outcomes) => Retryable(k)
       /\ Succeeded(k) =>
            /\ k = Len(outcomes)
            /\ pc \in {"ret", "done"}
            /\ Done => result = [tag |-> "return", kind |-> "none", val |-> outcomes[k].val]
  /\ (Done /\ Retryable(Len(outcomes))) => Len(outcomes) = N

RetryUntilSuccessNthWitness ==
  /\ Done /\ op = "write" /\ N = 3 /\ Len(outcomes) = 3
  /\ Retryable(1) /\ Retryable(2) /\ Succeeded(3)
  /\ result.tag = "return" /\ result.val = NoneVal

InCheck == op \in {"write", "read"}
ReadinessKinds == {"NonReadableSocketError", "NonWritableSocketError"}

\* C11: in an invocation of _assert_writable / _assert_readable that started with a
\* socket held, a not-ready first poll followed by a ready second poll means that
\* the check has ended without raising, after exactly one _reconnect (one release,
\* one connect), with a connected socket held.
ReconnectOnUnusable ==
  (InCheck /\ entry # "None" /\ polls = <<FALSE, TRUE>>) =>
    /\ nrecon = 1
    /\ ncatch = 1
    /\ socket = "connected"
    /\ pc \notin {"select", "reconnect"}
    /\ raised.kind \notin ReadinessKinds

ReconnectOnUnusableWitness ==
  /\ op = "write" /\ entry = "connected" /\ polls = <<FALSE, TRUE>>
  /\ pc = "send" /\ nrecon = 1 /\ socket = "connected"

\* C12: no invocation polls more than twice; when the second poll is not ready and
\* the reconnects succeeded, the check raises NonWritableSocketError (write) or
\* NonReadableSocketError (read), a kind of settings.exceptions, formatted with the
\* host, the port, the address family and the socket type.
ReconnectExhaustion ==
  /\ Len(polls) <= 2
  /\ (InCheck /\ Len(polls) = 2 /\ ~polls[2] /\ pc # "reconnect"
              /\ ncatch = nrecon /\ socket = "connected") =>
       /\ raised.kind = IF op = "read" THEN "NonReadableSocketError"
                                          ELSE "NonWritableSocketError"
       /\ raised.kind \in RetryExceptions
       /\ {"host_name", "port_number", "address_family", "socket_type"} \subseteq raised.details
       /\ op = "write" => Last.kind = "NonWritableSocketError"

ReconnectExhaustionWitness ==
  /\ op = "write" /\ polls = <<FALSE, FALSE>> /\ pc = "ret"
  /\ ncatch = nrecon /\ socket = "connected"
  /\ raised.kind = "NonWritableSocketError"

\* C13: read() never raises: it makes one invocation of _raw_read, never sleeps and
\* returns a byte string, the empty one whenever anything failed inside _raw_read.
ReadNeverRaises ==
  op = "read" =>
    /\ Len(outcomes) <= 1
    /\ pc # "sleep"
    /\ sleeps = <<>>
    /\ \A i \in 1..Len(outcomes) : outcomes[i].kind = "none" /\ ~outcomes[i].val.isNone
    /\ (pc \in {"ret", "done"} /\ raised.kind # "none") => Last.val = Bytes(<<>>)
    /\ Done => (result.tag = "return" /\ Len(outcomes) = 1 /\ result.val = Last.val)

ReadNeverRaisesWitness ==
  /\ op = "read" /\ Done /\ raised.kind = "NonReadableSocketError"
  /\ result.tag = "return" /\ result.val = Bytes(<<>>)

\* C14: after __del__, whatever the instance held, no exception has left the
\* method and the socket has been released.
DestructorReleases ==
  pc = "destroyed" => (raised.kind = "none" /\ socket = "None")

\* C15: before the first call nothing has touched a socket and self.socket is None;
\* release() and __del__ on such an instance leave it None; an invocation of
\* _raw_write / _raw_read that starts with self.socket None has connected before
\* its first poll.
LazyConnect ==
  /\ pc \in {"load", "idle", "ValueError"} =>
       (socket = "None" /\ ~acted /\ orphans = 0 /\ ncatch = 0)
  /\ (op \in {"release", "__del__"} /\ pre = "None") => (socket = "None" /\ ~acted)
  /\ (InCheck /\ entry = "None" /\ pc = "select" /\ polls = <<>>) =>
       (ncatch = 1 /\ socket = "connected")
  /\ (InCheck /\ entry = "None" /\ polls # <<>>) => ncatch >= 1

LazyConnectWitness ==
  /\ op = "write" /\ prev.op = "none" /\ pre = "None" /\ entry = "None"
  /\ pc = "select" /\ polls = <<>> /\ ncatch = 1 /\ socket = "connected"

\* C16: backoff(settings) raises ValueError exactly when max_tries <= 0 or
\* delay <= 0 or backoff <= 1, and then nothing was wrapped, invoked or slept.
ConfigValidation ==
  LET valid == settings.max_tries > 0 /\ settings.delay > 0 /\ settings.backoff > 1 IN
    /\ pc # "load" => (decorated <=> valid)
    /\ (pc # "load" /\ ~valid) => pc = "ValueError"
    /\ pc = "ValueError" =>
         /\ ~valid /\ ~decorated
         /\ op = "none" /\ outcomes = <<>> /\ sleeps = <<>> /\ ~acted /\ socket = "None"
    /\ op # "none" => valid

ConfigValidationWitness ==
  /\ pc = "ValueError"
  /\ settings = [max_tries |-> 3, delay |-> 3, backoff |-> 1]

\* C17: under the default policy a write() whose attempts failed only with kinds of
\* settings.exceptions and only on a connection the peer had closed (every connect,
\* and every poll and send on a new connection, succeeded) returns normally.
WriteRecovers ==
  (Done /\ op = "write" /\ settings = RetrySettings /\ ~fault
        /\ \A i \in 1..Len(outcomes) : (Succeeded(i) \/ Retryable(i))) =>
    result.tag = "return"

\* C18: an invocation of _assert_writable / _assert_readable that started with a
\* socket held makes at most one _reconnect (each of them completing its connect).
AtMostOneReconnect ==
  (InCheck /\ entry # "None" /\ ncatch = nrecon) => nrecon <= 1

\* C19: every _reconnect of an invocation has made its _raw_catch.
ReconnectAlwaysConnects ==
  InCheck => ncatch = nrecon

InCall == pc \in {"try", "select", "reconnect", "send", "recv", "ret", "sleep"}

\* C20: a call never makes more than max_tries invocations nor max_tries - 1 sleeps;
\* it ends only by returning the value of its last invocation or by raising that
\* invocation's exception; each send that stays in the loop has increased totalsent;
\* and every call that has started ends.
CallTerminates ==
  /\ [](op # "none" => (Len(outcomes) <= N /\ Len(sleeps) <= N - 1))
  /\ [](Done => /\ outcomes # <<>>
                /\ result.tag \in {"return", "raise"}
                /\ result.tag = "return" =>
                     (Last.kind = "none" /\ result.val = Last.val)
                /\ result.tag = "raise" =>
                     (Last.kind # "none" /\ result.kind = Last.kind))
  /\ [][(pc = "send" /\ pc' = "send") =>
          (totalsent' > totalsent /\ totalsent' < Len(data))]_vars
  /\ (InCall ~> Done)

CallTerminatesWitness ==
  /\ Done /\ op = "write" /\ Len(data) = 2 /\ Len(wire) = 2
  /\ N = 3 /\ Len(outcomes) = 3 /\ Len(sleeps) = 2 /\ result.tag = "return"

====
